---- MODULE Spec2Model ----
(***************************************************************************)
(* A model of sigtop's quote-chain resolver (src/signal/quote.go) and of   *)
(* its JSON message exporter (src/unnamed/part_000).                       *)
(*                                                                         *)
(* The resolver is modelled as an explicit call stack: one frame per       *)
(* active call of parseQuoteJSONWithDepth or findQuoteOfMessage, one       *)
(* action per straight-line segment of those functions.  The exporter is   *)
(* modelled as the loop of jsonWriteMessages, one action per iteration.    *)
(***************************************************************************)
EXTENDS Integers, Sequences, FiniteSets, TLC

VARIABLES
    db,        \* the messages table: sent_at -> row (never written)
    top,       \* the raw quote handed to parseQuoteJSON
    pc,        \* "init" | "run" | "done": position of the top-level call
    stack,     \* call stack, innermost frame last
    ret,       \* the value returned by the call that returned last
    result,    \* what parseQuoteJSON returned (once pc = "done")
    stmtLog,   \* the Prepare and Finalize calls made so far, in order
    lookups,   \* number of calls of findQuoteOfMessage so far
    msgs,      \* the messages handed to jsonWriteMessages
    self,      \* what ctx.SelfRecipient() returns: a recipient, or Nil
    wpc,       \* "init" | "loop" | "encode" | "done": position in jsonWriteMessages
    selfName,  \* jsonWriteMessages' selfName
    export,    \* jsonWriteMessages' export
    werr       \* the error jsonWriteMessages returned (once wpc = "done")

rvars == <<db, top, pc, stack, ret, result, stmtLog, lookups>>

wvars == <<msgs, self, wpc, selfName, export, werr>>

vars == <<rvars, wvars>>

----------------------------------------------------------------------------
(* Bounds of the model *)

\* Messages in the store have sent_at in 1..MaxTS.
MaxTS == 2

\* A message has at most MaxEdits edits.
MaxEdits == 3

\* jsonWriteMessages is given at most MaxMsgs messages.
MaxMsgs == 2

----------------------------------------------------------------------------
(* Values *)

\* A nil pointer (*quoteJSON, *Quote, *jsonQuote).
Nil == [nil |-> TRUE]

maxDepth == 10

LongTextType == "text/x-signal-plain"

NoErr == "no error"
ErrQuoteID == "cannot parse quote ID"
ErrNoAuthor == "quote without author"
ErrRecipient == "recipient lookup failed"
ErrMention == "mention parse failed"
ErrPrepare == "prepare failed"
ErrBind == "bind failed"

----------------------------------------------------------------------------
(* json.Number.Int64: strconv.ParseInt(lit, 10, 64) on the number literal. *)
(* A literal is a sequence of one-character strings.  The literals of the  *)
(* model are short, so the 64-bit range error cannot arise.                *)

Digits == <<"0", "1", "2", "3", "4", "5", "6", "7", "8", "9">>

IsDigit(c) == \E i \in 1..10 : Digits[i] = c

DigitVal(c) == (CHOOSE i \in 1..10 : Digits[i] = c) - 1

RECURSIVE DigitsValue(_, _)
\* The value of a sequence of digits read left to right, acc the value so far.
DigitsValue(s, acc) ==
    IF s = <<>> THEN acc ELSE DigitsValue(Tail(s), acc * 10 + DigitVal(Head(s)))

Int64(lit) ==
    LET neg  == lit # <<>> /\ Head(lit) = "-"
        sgn  == lit # <<>> /\ (Head(lit) = "-" \/ Head(lit) = "+")
        body == IF sgn THEN Tail(lit) ELSE lit
    IN  IF body = <<>> \/ \E i \in 1..Len(body) : ~IsDigit(body[i])
        THEN [ok |-> FALSE, val |-> 0]
        ELSE [ok |-> TRUE,
              val |-> IF neg THEN 0 - DigitsValue(body, 0) ELSE DigitsValue(body, 0)]

\* The decimal literal of a timestamp 0..9.
Lit(n) == <<Digits[n + 1]>>

----------------------------------------------------------------------------
(* Recipients.  recipientFromACI, recipientFromPhone and parseMentionJSON  *)
(* are not part of the sources at hand; their callers show that each       *)
(* returns a value or an error.                                            *)

recipientFromACI(aci) == [kind |-> "aci", id |-> aci]

recipientFromPhone(phone) == [kind |-> "phone", id |-> phone]

DetailedDisplayName(rpt) == <<"name of", rpt.id>>

parseMentionJSON(jmnts) ==
    [i \in 1..Len(jmnts) |->
        [Start |-> jmnts[i].start, Length |-> jmnts[i].length,
         Recipient |-> recipientFromACI(jmnts[i].mentionUuid)]]

----------------------------------------------------------------------------
(* parseQuoteJSONWithDepth, lines 63-116: the quote's own fields *)

\* Faulty variant of DepthLimitReached: the limit is off by one.
DepthLimitReachedOffByOne(depth) == depth > maxDepth

\* Line 70: the recursion limit.
DepthLimitReached(depth) == depth >= maxDepth

\* Lines 77-81: [ok, val] of the quote's timestamp.
TimeSentOf(jqte) ==
    IF jqte.ID.null THEN [ok |-> TRUE, val |-> -1] ELSE Int64(jqte.ID.lit)

\* Faulty variant of AuthorCase: no default case, the phone case is the last.
AuthorCaseNoDefault(jqte) ==
    IF jqte.AuthorACI # "" THEN "aci"
    ELSE IF jqte.AuthorUUID # "" THEN "uuid"
    ELSE "phone"

\* Faulty variant of AuthorCase: the legacy phone number is tried first.
AuthorCasePhoneFirst(jqte) ==
    IF jqte.Author # "" THEN "phone"
    ELSE IF jqte.AuthorACI # "" THEN "aci"
    ELSE IF jqte.AuthorUUID # "" THEN "uuid"
    ELSE "none"

\* Lines 83-98: which case of the switch is taken.
AuthorCase(jqte) ==
    IF jqte.AuthorACI # "" THEN "aci"
    ELSE IF jqte.AuthorUUID # "" THEN "uuid"
    ELSE IF jqte.Author # "" THEN "phone"
    ELSE "none"

\* Lines 83-98: the recipient of the case taken (when its lookup succeeds).
AuthorRecipient(jqte) ==
    CASE AuthorCase(jqte) = "aci"   -> recipientFromACI(jqte.AuthorACI)
      [] AuthorCase(jqte) = "uuid"  -> recipientFromACI(jqte.AuthorUUID)
      [] AuthorCase(jqte) = "phone" -> recipientFromPhone(jqte.Author)
      [] OTHER -> Nil

RECURSIVE QuoteAttachments(_)
\* Lines 106-116: long-message attachments are skipped.
QuoteAttachments(jatts) ==
    IF jatts = <<>> THEN <<>>
    ELSE IF Head(jatts).contentType = LongTextType
         THEN QuoteAttachments(Tail(jatts))
         ELSE <<[FileName |-> Head(jatts).fileName,
                 ContentType |-> Head(jatts).contentType]>>
              \o QuoteAttachments(Tail(jatts))

Absent == [kind |-> "absent", err |-> NoErr, qte |-> Nil]

Failed(e) == [kind |-> "error", err |-> e, qte |-> Nil]

\* Lines 63-116.  rcptOK, mntOK: whether the recipient lookup and the mention
\* parsing succeed, should the code reach them.
ParseFields(jqte, depth, rcptOK, mntOK) ==
    IF jqte = Nil THEN Absent
    ELSE IF DepthLimitReached(depth) THEN Absent
    ELSE IF ~TimeSentOf(jqte).ok THEN Failed(ErrQuoteID)
    ELSE IF AuthorCase(jqte) = "none" THEN Failed(ErrNoAuthor)
    ELSE IF ~rcptOK THEN Failed(ErrRecipient)
    ELSE IF ~mntOK THEN Failed(ErrMention)
    ELSE [kind |-> "quote", err |-> NoErr,
          qte |-> [Recipient   |-> AuthorRecipient(jqte),
                   TimeSent    |-> TimeSentOf(jqte).val,
                   Body        |-> [Text |-> jqte.Text,
                                    Mentions |-> parseMentionJSON(jqte.Mentions)],
                   Attachments |-> QuoteAttachments(jqte.Attachments),
                   QuotedQuote |-> Nil]]

\* Faulty variant of FollowsChain: only a zero timestamp stops the chain.
FollowsChainNonZero(qte) == qte.TimeSent # 0

\* Line 119: whether the quoted message's own quote is looked up.
FollowsChain(qte) == qte.TimeSent > 0

\* Lines 120-125: the chain link made of what findQuoteOfMessage returned.
ChainLink(quotedQuote, err) == IF err # NoErr THEN Nil ELSE quotedQuote

\* Faulty variant of AfterChain: the chain step's error is returned.
AfterChainPropagates(qte, quotedQuote, err) ==
    IF err # NoErr
    THEN [quote |-> Nil, err |-> err]
    ELSE [quote |-> [qte EXCEPT !.QuotedQuote = quotedQuote], err |-> NoErr]

\* Lines 120-128: what the quote's resolution returns after the chain step.
AfterChain(qte, quotedQuote, err) ==
    [quote |-> [qte EXCEPT !.QuotedQuote = ChainLink(quotedQuote, err)],
     err   |-> NoErr]

----------------------------------------------------------------------------
(* The store and the raw quotes of the model *)

Timestamps == 1..MaxTS

NullID == [null |-> TRUE, lit |-> <<>>]

NumberID(lit) == [null |-> FALSE, lit |-> lit]

\* "id" of a stored quote: null, a fraction (no int64), or the sent_at of a
\* message.
IDs == {NullID, NumberID(<<"1", ".", "5">>)} \cup {NumberID(Lit(t)) : t \in Timestamps}

NoContent == [Text |-> "", Mentions |-> <<>>, Attachments |-> <<>>]

SomeContent ==
    [Text |-> "hi",
     Mentions |-> <<[start |-> 0, length |-> 1, mentionUuid |-> "aci-m"]>>,
     Attachments |-> <<[contentType |-> LongTextType, fileName |-> ""],
                       [contentType |-> "image/png", fileName |-> "a.png"]>>]

RawQuote(id, aci, uuid, phone, content) ==
    [ID |-> id, AuthorACI |-> aci, AuthorUUID |-> uuid, Author |-> phone,
     Text |-> content.Text, Mentions |-> content.Mentions,
     Attachments |-> content.Attachments]

\* The raw quotes of the stored messages: with an author and any id, or
\* without an author.
StoredQuotes ==
    {RawQuote(id, "aci-1", "", "", SomeContent) : id \in IDs}
        \cup {RawQuote(NumberID(Lit(1)), "", "", "", NoContent)}

\* The raw quotes a top-level call is given: a stored message's quote, or any
\* combination of author fields and content with an id that is no stored
\* message's sent_at.
TopQuotes ==
    StoredQuotes \cup
    {RawQuote(id, aci, uuid, phone, content) :
        id \in {NullID, NumberID(<<"1", ".", "5">>), NumberID(Lit(0))},
        aci \in {"", "aci-1"}, uuid \in {"", "aci-2"},
        phone \in {"", "+31"}, content \in {NoContent, SomeContent}}

\* A row of the messages table, as findQuoteOfMessage sees it: no row, or the
\* json column: empty, not valid JSON, JSON without "quote", JSON with one.
NoRow == [row |-> FALSE, json |-> "none", quote |-> Nil]

Row(json, quote) == [row |-> TRUE, json |-> json, quote |-> quote]

Rows ==
    {NoRow, Row("empty", Nil), Row("invalid", Nil), Row("object", Nil)}
        \cup {Row("object", q) : q \in StoredQuotes}

\* SELECT json FROM messages WHERE sent_at = ? LIMIT 1
SelectRow(store, sentAt) ==
    IF sentAt \in DOMAIN store THEN store[sentAt] ELSE NoRow

----------------------------------------------------------------------------
(* Call stack *)

ParseFrame(jqte, depth) ==
    [fn |-> "parse", at |-> "enter", depth |-> depth, jqte |-> jqte,
     qte |-> Nil, sentAt |-> 0, stmt |-> 0]

FindFrame(sentAt, depth) ==
    [fn |-> "find", at |-> "enter", depth |-> depth, jqte |-> Nil,
     qte |-> Nil, sentAt |-> sentAt, stmt |-> 0]

Top == stack[Len(stack)]

Caller == SubSeq(stack, 1, Len(stack) - 1)

NoRet ==
    [fn |-> "none", depth |-> 0, jqte |-> Nil, sentAt |-> 0,
     quote |-> Nil, err |-> NoErr, chain |-> "none"]

\* The value a call returns; chain tells how its chain step (parse) or its
\* lookup (find) ended.
Returned(frame, quote, err, chain) ==
    [fn |-> frame.fn, depth |-> frame.depth, jqte |-> frame.jqte,
     sentAt |-> frame.sentAt, quote |-> quote, err |-> err, chain |-> chain]

\* The innermost call returns r to its caller, or to parseQuoteJSON's caller.
Return(r) ==
    /\ stack' = Caller
    /\ ret' = r
    /\ IF Len(stack) = 1
       THEN pc' = "done" /\ result' = [quote |-> r.quote, err |-> r.err]
       ELSE UNCHANGED <<pc, result>>

----------------------------------------------------------------------------
(* Resolver: initial state and actions *)

NoResult == [quote |-> Nil, err |-> NoErr]

NoExport == [Conversation |-> <<>>, Messages |-> <<>>]

\* jsonWriteMessages is not running.
WriterIdle ==
    /\ msgs = <<>>
    /\ self = Nil
    /\ wpc = "off"
    /\ selfName = <<>>
    /\ export = NoExport
    /\ werr = NoErr

Init ==
    /\ WriterIdle
    /\ db \in [Timestamps -> Rows]
    /\ top \in TopQuotes \cup {Nil}
    /\ pc = "init"
    /\ stack = <<>>
    /\ ret = NoRet
    /\ result = NoResult
    /\ stmtLog = <<>>
    /\ lookups = 0

\* Lines 59-61.
parseQuoteJSON ==
    /\ pc = "init"
    /\ pc' = "run"
    /\ stack' = <<ParseFrame(top, 0)>>
    /\ UNCHANGED <<db, top, ret, result, stmtLog, lookups, wvars>>

\* Lines 63-120: the quote's own fields, then either a return or the call of
\* findQuoteOfMessage.
parseQuoteJSONWithDepth ==
    /\ pc = "run" /\ Top.fn = "parse" /\ Top.at = "enter"
    /\ \E rcptOK \in BOOLEAN, mntOK \in BOOLEAN :
         LET r == ParseFields(Top.jqte, Top.depth, rcptOK, mntOK) IN
         IF r.kind = "quote" /\ FollowsChain(r.qte)
         THEN /\ stack' = Caller \o <<[Top EXCEPT !.at = "chain", !.qte = r.qte],
                                      FindFrame(r.qte.TimeSent, Top.depth + 1)>>
              /\ lookups' = lookups + 1
              /\ UNCHANGED <<pc, ret, result>>
         ELSE /\ Return(Returned(Top, r.qte, r.err, "none"))
              /\ UNCHANGED lookups
    /\ UNCHANGED <<db, top, stmtLog, wvars>>

\* Lines 121-128: findQuoteOfMessage has returned.
parseQuoteJSONWithDepthChain ==
    /\ pc = "run" /\ Top.fn = "parse" /\ Top.at = "chain"
    /\ LET r == AfterChain(Top.qte, ret.quote, ret.err) IN
         Return(Returned(Top, r.quote, r.err, ret.chain))
    /\ UNCHANGED <<db, top, stmtLog, lookups, wvars>>

----------------------------------------------------------------------------
(* findQuoteOfMessage *)

\* Lines 134-162: where the lookup leaves the function body.  prepOK, bindOK:
\* whether Prepare and BindInt64 succeed.
\*   "prepare", "bind"  return nil, err
\*   "norow", "empty", "badjson", "noquote"  return nil, nil
\*   "call"  the row holds a quote: parseQuoteJSONWithDepth is called on it
Lookup(store, sentAt, prepOK, bindOK) ==
    LET row == SelectRow(store, sentAt) IN
    IF ~prepOK THEN [exit |-> "prepare", err |-> ErrPrepare, quote |-> Nil]
    ELSE IF ~bindOK THEN [exit |-> "bind", err |-> ErrBind, quote |-> Nil]
    ELSE IF ~row.row THEN [exit |-> "norow", err |-> NoErr, quote |-> Nil]
    ELSE IF row.json = "empty" THEN [exit |-> "empty", err |-> NoErr, quote |-> Nil]
    ELSE IF row.json = "invalid" THEN [exit |-> "badjson", err |-> NoErr, quote |-> Nil]
    ELSE IF row.quote = Nil THEN [exit |-> "noquote", err |-> NoErr, quote |-> Nil]
    ELSE [exit |-> "call", err |-> NoErr, quote |-> row.quote]

\* Faulty variant of FinalizeCalls: no Finalize on the bind error's return.
FinalizeCallsNotOnBindError(exit) == IF exit \in {"call", "bind"} THEN 0 ELSE 1

\* Faulty variant of FinalizeCalls: Finalize is called before the nested
\* resolution instead of being deferred.
FinalizeCallsBeforeNested(exit) == IF exit = "return" THEN 0 ELSE 1

\* Line 138, defer stmt.Finalize(): how often the statement is finalized at
\* each place the function is left once the statement is prepared: not when
\* it calls parseQuoteJSONWithDepth ("call"), once at each return (the early
\* ones, and "return": that of line 164).
FinalizeCalls(exit) == IF exit = "call" THEN 0 ELSE 1

Prepared(s) == [call |-> "Prepare", stmt |-> s]

Finalized(s) == [call |-> "Finalize", stmt |-> s]

\* The statements prepared so far, numbered in the order of their Prepare.
Statements == {stmtLog[k].stmt : k \in DOMAIN stmtLog}

\* n calls of stmt.Finalize on statement s.
Finalizes(s, n) == [k \in 1..n |-> Finalized(s)]

\* Lines 132-164, up to a return or the call of line 164.
findQuoteOfMessage ==
    /\ pc = "run" /\ Top.fn = "find" /\ Top.at = "enter"
    /\ \E prepOK \in BOOLEAN, bindOK \in BOOLEAN :
         LET r == Lookup(db, Top.sentAt, prepOK, bindOK) IN
         IF r.exit = "prepare"
         THEN /\ Return(Returned(Top, Nil, r.err, r.exit))
              /\ UNCHANGED stmtLog
         ELSE /\ stmtLog' = Append(stmtLog, Prepared(Cardinality(Statements) + 1))
                                \o Finalizes(Cardinality(Statements) + 1,
                                             FinalizeCalls(r.exit))
              /\ IF r.exit = "call"
                 THEN /\ stack' = Caller
                            \o <<[Top EXCEPT !.at = "nested",
                                             !.stmt = Cardinality(Statements) + 1],
                                 ParseFrame(r.quote, Top.depth)>>
                      /\ UNCHANGED <<pc, ret, result>>
                 ELSE Return(Returned(Top, Nil, r.err, r.exit))
    /\ UNCHANGED <<db, top, lookups, wvars>>

\* How the nested resolution ended, as the chain step's outcome.
NestedOutcome(r) ==
    IF r.err # NoErr THEN "nested-error"
    ELSE IF r.quote = Nil THEN "nested-absent"
    ELSE "nested-quote"

\* Line 164's return, and the deferred Finalize of line 138.
findQuoteOfMessageReturn ==
    /\ pc = "run" /\ Top.fn = "find" /\ Top.at = "nested"
    /\ stmtLog' = stmtLog \o Finalizes(Top.stmt, FinalizeCalls("return"))
    /\ Return(Returned(Top, ret.quote, ret.err, NestedOutcome(ret)))
    /\ UNCHANGED <<db, top, lookups, wvars>>

----------------------------------------------------------------------------
(* Specification of the resolver *)

Next ==
    \/ parseQuoteJSON
    \/ parseQuoteJSONWithDepth
    \/ parseQuoteJSONWithDepthChain
    \/ findQuoteOfMessage
    \/ findQuoteOfMessageReturn

Spec == Init /\ [][Next]_vars

\* The call stack always makes its next step: the code is synchronous and
\* single-threaded.
FairSpec == Spec /\ WF_vars(Next)

----------------------------------------------------------------------------
(* The JSON exporter: helpers *)

\* A display name or a formatted time is a tuple; the empty string is <<>>.
EmptyString == <<>>

\* formatTime: "" for msec <= 0, else the time to the second (the layout has
\* no milliseconds).
formatTime(msec) ==
    IF msec <= 0 THEN EmptyString ELSE <<"2006-01-02 15:04:05", msec \div 1000>>

\* convertAttachments.
convertAttachments(atts) ==
    [i \in 1..Len(atts) |->
        [FileName |-> atts[i].FileName, ContentType |-> atts[i].ContentType,
         Size |-> atts[i].Size]]

RECURSIVE convertQuote(_)
\* convertQuote: a quote's attachments carry no size (its zero value).
convertQuote(qte) ==
    IF qte = Nil THEN Nil
    ELSE [From |-> DetailedDisplayName(qte.Recipient),
          Sent |-> IF qte.TimeSent > 0 THEN formatTime(qte.TimeSent) ELSE EmptyString,
          Body |-> qte.Body.Text,
          Attachments |->
              [i \in 1..Len(qte.Attachments) |->
                  [FileName |-> qte.Attachments[i].FileName,
                   ContentType |-> qte.Attachments[i].ContentType,
                   Size |-> 0]],
          Quote |-> IF qte.QuotedQuote # Nil THEN convertQuote(qte.QuotedQuote) ELSE Nil]

formatGroupV2ChangeAction(actionType) ==
    CASE actionType = "member-add" -> "Member added"
      [] actionType = "member-remove" -> "Member removed"
      [] actionType = "member-add-from-invite" -> "Member joined from invite"
      [] actionType = "member-add-from-link" -> "Member joined via link"
      [] actionType = "pending-add-many" -> "Invitations sent"
      [] actionType = "admin-approval-add-one" -> "Requested to join"
      [] actionType = "title" -> "Title changed"
      [] actionType = "description" -> "Description changed"
      [] actionType = "avatar" -> "Avatar changed"
      [] actionType = "access-attributes" -> "Group settings changed"
      [] actionType = "announcements-only" -> "Announcements only mode changed"
      [] actionType = "access-members" -> "Member access changed"
      [] actionType = "member-privilege" -> "Member privilege changed"
      [] OTHER -> actionType

\* Message.IsOutgoing.
IsOutgoing(msg) == msg.Type = "outgoing"

\* Lines 99-104.
FromOf(msg, name) ==
    IF IsOutgoing(msg) THEN name
    ELSE IF msg.Source # Nil THEN DetailedDisplayName(msg.Source)
    ELSE EmptyString

\* Faulty variant of LiveBody: the body is kept beside the edits.
LiveBodyAlways(msg) == msg.Body.Text

\* Lines 115-119: the record's body and quote.
LiveBody(msg) == IF Len(msg.Edits) = 0 THEN msg.Body.Text ELSE ""

LiveQuote(msg) == IF Len(msg.Edits) = 0 THEN convertQuote(msg.Quote) ELSE Nil

\* Faulty variant of EditVersion: versions count up.
EditVersionAscending(n, i) == i + 1

\* Line 136: the version of the edit at index i (0-based) of n edits.
EditVersion(n, i) == n - i

\* Lines 133-143.
jsonEdits(edits) ==
    [k \in 1..Len(edits) |->
        [Version |-> EditVersion(Len(edits), k - 1),
         Sent |-> formatTime(edits[k].TimeEdit),
         Body |-> edits[k].Body.Text,
         Attachments |-> convertAttachments(edits[k].Attachments),
         Quote |-> convertQuote(edits[k].Quote)]]

\* Lines 146-164.
jsonGroupV2Changes(gcs) ==
    [k \in 1..Len(gcs) |->
        [Action |-> formatGroupV2ChangeAction(gcs[k].Type),
         Who |-> IF gcs[k].Who # Nil THEN DetailedDisplayName(gcs[k].Who) ELSE EmptyString,
         InvitedBy |-> IF gcs[k].Inviter # Nil
                       THEN DetailedDisplayName(gcs[k].Inviter) ELSE EmptyString,
         Count |-> gcs[k].Count,
         NewTitle |-> gcs[k].NewTitle,
         Description |-> gcs[k].Description]]

\* Lines 95-164: the record of one message.
jsonMessage(msg, name) ==
    [Type |-> msg.Type,
     From |-> FromOf(msg, name),
     Sent |-> IF msg.TimeSent # 0 THEN formatTime(msg.TimeSent) ELSE EmptyString,
     SentUnix |-> IF msg.TimeSent # 0 THEN msg.TimeSent ELSE 0,
     Received |-> IF ~IsOutgoing(msg) /\ msg.TimeRecv # 0
                  THEN formatTime(msg.TimeRecv) ELSE EmptyString,
     Body |-> LiveBody(msg),
     Quote |-> LiveQuote(msg),
     Attachments |-> convertAttachments(msg.Attachments),
     Reactions |-> [k \in 1..Len(msg.Reactions) |->
                       [Emoji |-> msg.Reactions[k].Emoji,
                        From |-> DetailedDisplayName(msg.Reactions[k].Recipient)]],
     Edits |-> jsonEdits(msg.Edits),
     GroupV2Change |-> jsonGroupV2Changes(msg.GroupV2Change)]

----------------------------------------------------------------------------
(* The messages of the model *)

\* Quotes as the resolver builds them: one with a quote chain, one without.
InnerQuote ==
    ParseFields(RawQuote(NullID, "", "", "+31", NoContent), 1, TRUE, TRUE).qte

ChainedQuote ==
    AfterChain(ParseFields(RawQuote(NumberID(Lit(1)), "aci-1", "", "", SomeContent),
                           0, TRUE, TRUE).qte,
               InnerQuote, NoErr).quote

Edit(ms, text, quote) ==
    [TimeEdit |-> ms, Body |-> [Text |-> text, Mentions |-> <<>>],
     Attachments |-> <<>>, Quote |-> quote]

\* The two edits of the model; an edit list alternates between them.
EditA == Edit(5500, "first", ChainedQuote)

EditB == Edit(0, "second", Nil)

EditLists ==
    {<<>>} \cup {[k \in 1..n |-> IF k % 2 = b THEN EditA ELSE EditB] :
                    n \in 1..MaxEdits, b \in 0..1}

Alice == recipientFromACI("aci-1")

Group == recipientFromACI("group-1")

Incoming ==
    [Type |-> "incoming", Source |-> Alice, TimeSent |-> 2500, TimeRecv |-> 3000,
     Attachments |-> <<[FileName |-> "a.png", ContentType |-> "image/png", Size |-> 7]>>,
     Reactions |-> <<[Emoji |-> "+1", Recipient |-> Alice]>>,
     GroupV2Change |-> <<>>]

Outgoing ==
    [Type |-> "outgoing", Source |-> Nil, TimeSent |-> 1000, TimeRecv |-> 0,
     Attachments |-> <<>>, Reactions |-> <<>>,
     GroupV2Change |-> <<[Type |-> "title", Who |-> Alice, Inviter |-> Nil,
                          Count |-> 0, NewTitle |-> "t", Description |-> ""]>>]

Message(header, text, quote, edits) ==
    [Conversation |-> Group, Type |-> header.Type, Source |-> header.Source,
     TimeSent |-> header.TimeSent, TimeRecv |-> header.TimeRecv,
     Body |-> [Text |-> text, Mentions |-> <<>>], Quote |-> quote,
     Attachments |-> header.Attachments, Reactions |-> header.Reactions,
     Edits |-> edits, GroupV2Change |-> header.GroupV2Change]

Messages ==
    {Message(header, live[1], live[2], edits) :
        header \in {Incoming, Outgoing},
        live \in {<<"", Nil>>, <<"live", ChainedQuote>>},
        edits \in EditLists}

MessageLists == UNION {[1..n -> Messages] : n \in 1..MaxMsgs}

----------------------------------------------------------------------------
(* The JSON exporter: initial state and actions *)

\* parseQuoteJSON is not running.
ResolverIdle ==
    /\ db = [t \in Timestamps |-> NoRow]
    /\ top = Nil
    /\ pc = "off"
    /\ stack = <<>>
    /\ ret = NoRet
    /\ result = NoResult
    /\ stmtLog = <<>>
    /\ lookups = 0

WriterInit ==
    /\ ResolverIdle
    /\ msgs \in MessageLists
    /\ self \in {Nil, recipientFromPhone("+31")}
    /\ wpc = "init"
    /\ selfName = <<>>
    /\ export = NoExport
    /\ werr = NoErr

\* Lines 83-92.
jsonWriteMessagesBegin ==
    /\ wpc = "init"
    /\ export' = [Conversation |-> DetailedDisplayName(msgs[1].Conversation),
                  Messages |-> <<>>]
    /\ selfName' = IF self # Nil THEN DetailedDisplayName(self) ELSE <<"You">>
    /\ wpc' = "loop"
    /\ UNCHANGED <<msgs, self, werr, rvars>>

\* Lines 94-167: one iteration of the loop over msgs, or its end.
jsonWriteMessagesLoop ==
    /\ wpc = "loop"
    /\ IF Len(export.Messages) < Len(msgs)
       THEN /\ export' = [export EXCEPT !.Messages =
                   Append(@, jsonMessage(msgs[Len(export.Messages) + 1], selfName))]
            /\ UNCHANGED wpc
       ELSE /\ wpc' = "encode"
            /\ UNCHANGED export
    /\ UNCHANGED <<msgs, self, selfName, werr, rvars>>

\* Lines 169-175: the encoder's error, else the writer's.
jsonWriteMessagesEncode ==
    /\ wpc = "encode"
    /\ werr' \in {NoErr, "encode failed", "write failed"}
    /\ wpc' = "done"
    /\ UNCHANGED <<msgs, self, selfName, export, rvars>>

WriterNext ==
    \/ jsonWriteMessagesBegin
    \/ jsonWriteMessagesLoop
    \/ jsonWriteMessagesEncode

WriterSpec == WriterInit /\ [][WriterNext]_vars

----------------------------------------------------------------------------
(* Properties of the resolver *)

RECURSIVE ChainLength(_)
\* The number of quotes of a chain: the quote and those reached from it
\* through QuotedQuote.
ChainLength(q) == IF q = Nil THEN 0 ELSE 1 + ChainLength(q.QuotedQuote)

\* A call of parseQuoteJSONWithDepth on a present quote, below the depth
\* limit, has just returned.
Resolved ==
    /\ ret.fn = "parse"
    /\ ret.jqte # Nil
    /\ ret.depth < maxDepth

NoAuthor(jqte) == jqte.AuthorACI = "" /\ jqte.AuthorUUID = "" /\ jqte.Author = ""

IdParses(jqte) == jqte.ID.null \/ Int64(jqte.ID.lit).ok

\* The recipient of the first non-empty field among authorAci, authorUuid, author.
FirstAuthor(jqte) ==
    IF jqte.AuthorACI # "" THEN [kind |-> "aci", id |-> jqte.AuthorACI]
    ELSE IF jqte.AuthorUUID # "" THEN [kind |-> "aci", id |-> jqte.AuthorUUID]
    ELSE [kind |-> "phone", id |-> jqte.Author]

\* The recipient store failed during the call that returned.
StoreFailed(err) == err \in {ErrRecipient, ErrMention}

FinalizeCount(s) ==
    Cardinality({k \in DOMAIN stmtLog : stmtLog[k] = Finalized(s)})

OpenStatements == {s \in Statements : FinalizeCount(s) = 0}

\* The statements of the lookups that wait for their nested resolution.
HeldStatements ==
    {stack[i].stmt : i \in {j \in DOMAIN stack :
                               stack[j].fn = "find" /\ stack[j].at = "nested"}}

\* C1: whatever the store holds, the quote parseQuoteJSON returns has a chain
\* of at most 10 quotes (itself and those reached through QuotedQuote), hence
\* fewer than 10 QuotedQuote links.
C1_ChainBounded ==
    pc = "done" => ChainLength(result.quote) <= maxDepth

\* A cyclic store makes the chain as long as the limit allows.
C1_Witness ==
    pc = "done" /\ ChainLength(result.quote) = maxDepth

\* C2, as claimed: a present quote without any author field fails with
\* "quote without author" whatever its id.
C2_Original ==
    (pc = "done" /\ top # Nil /\ NoAuthor(top)) => result.err = ErrNoAuthor

\* C2, amended: a present quote without any author field, resolved below the
\* depth limit, fails whatever its text, mentions and attachments: with "quote
\* without author" when its id is null or an integer, with the id's parse
\* error otherwise.
C2_NoAuthorFails ==
    (Resolved /\ NoAuthor(ret.jqte)) =>
        /\ ret.quote = Nil
        /\ ret.err = IF IdParses(ret.jqte) THEN ErrNoAuthor ELSE ErrQuoteID

\* A stored quote without author was resolved in a chain step.
C2_Witness ==
    /\ Resolved /\ NoAuthor(ret.jqte)
    /\ ret.depth > 0
    /\ ret.err = ErrNoAuthor

ChainFailures == {"prepare", "bind", "norow", "empty", "badjson", "nested-error"}

\* C3: when the chain step of a quote fails (Prepare or bind error, no row,
\* empty or unparsable payload, failed nested resolution), the quote is still
\* returned, without error and without QuotedQuote.
C3_ChainFailureNonFatal ==
    (ret.fn = "parse" /\ ret.chain \in ChainFailures) =>
        /\ ret.err = NoErr
        /\ ret.quote # Nil
        /\ ret.quote.QuotedQuote = Nil

\* A nested quote failed to resolve and the quote above it was returned.
C3_Witness ==
    /\ ret.fn = "parse" /\ ret.chain = "nested-error"
    /\ ret.depth > 0
    /\ ret.quote # Nil

\* C4: no statement is finalized twice, and every statement whose lookup has
\* returned is finalized exactly once; so none is open when parseQuoteJSON
\* has returned.
C4_StatementsReleased ==
    /\ \A s \in Statements : FinalizeCount(s) <= 1
    /\ \A s \in Statements \ HeldStatements : FinalizeCount(s) = 1
    /\ pc = "done" => HeldStatements = {}

\* Ten statements were prepared and parseQuoteJSON has returned.
C4_Witness ==
    pc = "done" /\ Cardinality(Statements) = maxDepth

\* C5, as claimed: a quote with an author field whose recipient is found
\* resolves, to the first present field's recipient.
C5_Original ==
    (pc = "done" /\ top # Nil /\ ~NoAuthor(top) /\ ~StoreFailed(result.err)) =>
        /\ result.err = NoErr
        /\ result.quote # Nil
        /\ result.quote.Recipient = FirstAuthor(top)

\* C5, amended: a quote with an author field and an id that is null or an
\* integer, resolved below the depth limit, resolves unless the recipient store
\* fails; its author is the recipient of the first non-empty field among
\* authorAci, authorUuid, author, and the exported quote is from that
\* recipient's display name.
C5_AuthorResolved ==
    (Resolved /\ ~NoAuthor(ret.jqte) /\ IdParses(ret.jqte) /\ ~StoreFailed(ret.err)) =>
        /\ ret.err = NoErr
        /\ ret.quote # Nil
        /\ ret.quote.Recipient = FirstAuthor(ret.jqte)
        /\ convertQuote(ret.quote).From = <<"name of", FirstAuthor(ret.jqte).id>>

\* A quote with all three author fields resolved to its authorAci.
C5_Witness ==
    /\ Resolved /\ ret.err = NoErr
    /\ ret.jqte.AuthorACI # "" /\ ret.jqte.AuthorUUID # "" /\ ret.jqte.Author # ""
    /\ ret.quote.Recipient = [kind |-> "aci", id |-> ret.jqte.AuthorACI]

\* C8, as claimed: a quote with an author and a null id resolves, with
\* timestamp -1, without lookup and without nested quote; a quote with an
\* unparsable id fails with the parse error.
C8_Original ==
    (pc = "done" /\ top # Nil) =>
        /\ (top.ID.null /\ ~NoAuthor(top)) =>
              /\ result.err = NoErr
              /\ result.quote # Nil
              /\ result.quote.TimeSent = -1
              /\ result.quote.QuotedQuote = Nil
              /\ lookups = 0
        /\ ~IdParses(top) => (result.err = ErrQuoteID /\ result.quote = Nil)

\* C8, amended: as claimed, unless the recipient store fails while the quote
\* with the null id is resolved.
C8_NullAndBadID ==
    Resolved =>
        /\ (ret.jqte.ID.null /\ ~NoAuthor(ret.jqte) /\ ~StoreFailed(ret.err)) =>
              /\ ret.err = NoErr
              /\ ret.quote # Nil
              /\ ret.quote.TimeSent = -1
              /\ ret.quote.QuotedQuote = Nil
              /\ ret.chain = "none"
        /\ ~IdParses(ret.jqte) => (ret.err = ErrQuoteID /\ ret.quote = Nil)

\* A stored quote with a null id was resolved to the sentinel in a chain step,
\* without a lookup of its own.
C8_Witness ==
    /\ Resolved /\ ret.jqte.ID.null /\ ret.err = NoErr
    /\ ret.quote.TimeSent = -1
    /\ ret.depth > 0 /\ lookups = ret.depth

\* C9: parseQuoteJSON returns, after at most 10 calls of findQuoteOfMessage.
C9_Terminates ==
    /\ [](lookups <= maxDepth)
    /\ <>(pc = "done")

\* Ten lookups were made and parseQuoteJSON has returned.
C9_Witness ==
    pc = "done" /\ lookups = maxDepth

\* Statements are finalized in the reverse order of their Prepare: when one
\* has just been finalized, none prepared after it is open.
ReleasedInReverse ==
    (stmtLog # <<>> /\ stmtLog[Len(stmtLog)].call = "Finalize") =>
        \A s \in OpenStatements : s < stmtLog[Len(stmtLog)].stmt

\* C10: a lookup's statement stays open while the nested quote is resolved:
\* the open statements are those of the lookups waiting for their nested
\* resolution, while a quote is resolved at depth d exactly d statements are
\* open, never more than 10, and statements are finalized in reverse order.
C10_OpenStatements ==
    LET open == OpenStatements IN
    /\ open = HeldStatements
    /\ (stack # <<>> /\ Top.fn = "parse") => Cardinality(open) = Top.depth
    /\ Cardinality(open) <= maxDepth
    /\ ReleasedInReverse

\* Ten statements are open at once.
C10_Witness ==
    /\ Cardinality(OpenStatements) = maxDepth
    /\ stack # <<>> /\ Top.fn = "parse"

----------------------------------------------------------------------------
(* Properties of the exporter *)

Written == 1..Len(export.Messages)

\* C6: a message with N edits has N edit records, in the order of its edits,
\* the record at position i (0-based) with version N - i.
C6_EditVersions ==
    \A k \in Written :
        LET edits == msgs[k].Edits
            recs  == export.Messages[k].Edits
        IN  /\ Len(recs) = Len(edits)
            /\ \A i \in 1..Len(recs) :
                  /\ recs[i].Version = Len(edits) - (i - 1)
                  /\ recs[i].Body = edits[i].Body.Text
                  /\ recs[i].Quote = convertQuote(edits[i].Quote)
            /\ \A i \in 1..(Len(recs) - 1) : recs[i].Version > recs[i + 1].Version
            /\ Len(recs) > 0 => recs[Len(recs)].Version = 1

\* A message with MaxEdits edits, the first two different, was written.
C6_Witness ==
    \E k \in Written :
        /\ Len(export.Messages[k].Edits) = MaxEdits
        /\ export.Messages[k].Edits[1].Body # export.Messages[k].Edits[2].Body
        /\ export.Messages[k].Edits[1].Version = MaxEdits

\* C7: a written message with edits has an empty body and no quote; one
\* without edits has the message's body text and its converted quote.
C7_BodyOrEdits ==
    \A k \in Written :
        IF Len(msgs[k].Edits) > 0
        THEN export.Messages[k].Body = "" /\ export.Messages[k].Quote = Nil
        ELSE /\ export.Messages[k].Body = msgs[k].Body.Text
             /\ export.Messages[k].Quote = convertQuote(msgs[k].Quote)

\* An edited message with a live body and quote and an unedited one with a
\* quote were both written.
C7_Witness ==
    /\ \E k \in Written :
          /\ Len(msgs[k].Edits) > 0 /\ msgs[k].Body.Text # "" /\ msgs[k].Quote # Nil
          /\ export.Messages[k].Edits # <<>>
    /\ \E k \in Written :
          /\ Len(msgs[k].Edits) = 0
          /\ export.Messages[k].Quote # Nil /\ export.Messages[k].Quote.Quote # Nil

====
